---- MODULE Spec2Model ----
(***************************************************************************)
(* Firmware upload engine of src/lib/webserial.ts: the STK500v1 upload     *)
(* over a Web Serial port (uploadToArduino, attemptSync, readWithTimeout,  *)
(* the three reset patterns) and the Intel-HEX loader (parseHexFile).      *)
(*                                                                         *)
(* The port, its two streams and the device on the other end are the       *)
(* environment.  Their behaviour is that of the Web Serial / Streams       *)
(* interfaces the code is written against (interface SerialPort):          *)
(*   - reader.read() requests are served first-in first-out: a chunk that  *)
(*     arrives settles the OLDEST pending read, also one whose result      *)
(*     Promise.race no longer looks at;                                    *)
(*   - port.open() rejects on an open port, port.close() rejects while a   *)
(*     stream of the port is locked;                                       *)
(*   - any awaited port call may reject (a fault), a progress callback     *)
(*     may throw.                                                          *)
(* One action is one resumption of the async code: from one await to the   *)
(* next.                                                                   *)
(***************************************************************************)
EXTENDS Integers, Sequences, FiniteSets, TLC

\* ------------------------------------------------------------ constants
STK_OK == 16
STK_INSYNC == 20
STK_GET_SYNC == 48
STK_ENTER_PROGMODE == 80
STK_LEAVE_PROGMODE == 81
STK_LOAD_ADDRESS == 85
STK_PROG_PAGE == 100
CRC_EOP == 32
FLASH_TYPE == 70
FILL_BYTE == 255

maxAttempts == 8
pageSize == 128

\* timeouts handed to readWithTimeout, and the length of its race timer (ms)
DRAIN_TIMEOUT == 200
SYNC_TIMEOUT == 500
PROGMODE_TIMEOUT == 500
ADDR_TIMEOUT == 200
PAGE_TIMEOUT == 1000
LEAVE_TIMEOUT == 200
RACE_TIMER == 100

\* the board registry; a name or fqbn is kept as its sequence of words, so
\* that String.includes(word) is a search and not a lookup
ARDUINO_BOARDS ==
  << [name |-> <<"Arduino", "Uno">>,
      fqbn |-> <<"arduino", "avr", "uno">>,
      uploadProtocol |-> "stk500v1", baudRate |-> 115200],
     [name |-> <<"Arduino", "Nano">>,
      fqbn |-> <<"arduino", "avr", "nano">>,
      uploadProtocol |-> "stk500v1", baudRate |-> 115200],
     [name |-> <<"Arduino", "Nano", "(Old", "Bootloader)">>,
      fqbn |-> <<"arduino", "avr", "nano", "cpu=", "atmega328old">>,
      uploadProtocol |-> "stk500v1", baudRate |-> 57600],
     [name |-> <<"Arduino", "Mega">>,
      fqbn |-> <<"arduino", "avr", "mega">>,
      uploadProtocol |-> "stk500v2", baudRate |-> 115200] >>

\* ------------------------------------------------------------ bounds
\* chunks the device sends on its own after each reset pulse
MaxBanner == 1
\* port calls that may reject / callbacks that may throw in one run
MaxFaults == 1
\* chunks on their way from the device when the next frame is written: an
\* answer arrives before the device has been sent MaxWire frames more
MaxWire == 1
\* image lengths of the modelled uploads
ImageLens == {0, 128, 300}
\* largest page index of the address computation checked on its own
MaxAddrPage == 1100
\* records and text lines of a HEX file
MaxRecords == 3

\* ------------------------------------------------------------ helpers
includes(s, x) == \E i \in 1..Len(s) : s[i] = x

Min(a, b) == IF a < b THEN a ELSE b

RECURSIVE Flatten(_)
Flatten(chunks) ==
  IF chunks = <<>> THEN <<>> ELSE Head(chunks) \o Flatten(Tail(chunks))

IsPrefix(s, t) == Len(s) <= Len(t) /\ SubSeq(t, 1, Len(s)) = s

\* Math.floor in the place of Math.ceil
totalPagesFloor(len) == len \div pageSize

\* Math.ceil(hexData.length / pageSize)
totalPages(len) == (len + pageSize - 1) \div pageSize

\* the page without paddedData.fill(0xFF): a fresh Uint8Array holds zeros
paddedDataNoFill(hexData, page) ==
  LET addr == page * pageSize
      pageLen == Min(pageSize, Len(hexData) - addr)
  IN  [j \in 1..pageSize |-> IF j <= pageLen THEN hexData[addr + j] ELSE 0]

\* hexData.slice(addr, addr + pageSize) laid over a page filled with 0xFF
paddedData(hexData, page) ==
  LET addr == page * pageSize
      pageLen == Min(pageSize, Len(hexData) - addr)
  IN  [j \in 1..pageSize |->
         IF j <= pageLen THEN hexData[addr + j] ELSE FILL_BYTE]

\* the same with the byte address in the place of the word address
addrCmdByteAddress(page) ==
  LET addr == page * pageSize
  IN  << STK_LOAD_ADDRESS, addr % 256, (addr \div 256) % 256, CRC_EOP >>

\* [STK_LOAD_ADDRESS, wordAddr & 0xFF, (wordAddr >> 8) & 0xFF, CRC_EOP]
addrCmd(page) ==
  LET addr == page * pageSize
      wordAddr == addr \div 2
  IN  << STK_LOAD_ADDRESS, wordAddr % 256, (wordAddr \div 256) % 256, CRC_EOP >>

\* progCmd, the padded page, CRC_EOP
fullPacket(hexData, page) ==
  LET padded == paddedData(hexData, page)
  IN  << STK_PROG_PAGE, (Len(padded) \div 256) % 256, Len(padded) % 256,
         FLASH_TYPE >> \o padded \o << CRC_EOP >>

syncCmd == << STK_GET_SYNC, CRC_EOP >>
enterCmd == << STK_ENTER_PROGMODE, CRC_EOP >>
leaveCmd == << STK_LEAVE_PROGMODE, CRC_EOP >>

\* response.includes(STK_INSYNC) && response.includes(STK_OK)
responseSynced(response) ==
  includes(response, STK_INSYNC) /\ includes(response, STK_OK)

\* the same without the test of the old bootloader
baudRatesNanoOnly(b) ==
  IF includes(b.name, "Nano") THEN << 115200, 57600 >>
  ELSE << b.baudRate >>

\* baud rates to probe for a board
baudRates(b) ==
  IF includes(b.fqbn, "atmega328old") THEN << 57600 >>
  ELSE IF includes(b.name, "Nano") THEN << 115200, 57600 >>
  ELSE << b.baudRate >>

resetMethods == << "combined", "dtr", "rts" >>

\* the same with the lines left in the active state
resetSignalsNoRelease(method) ==
  CASE method = "dtr" ->
         << [dtr |-> FALSE, rts |-> FALSE], [dtr |-> TRUE, rts |-> FALSE],
            [dtr |-> TRUE, rts |-> FALSE] >>
    [] method = "rts" ->
         << [dtr |-> FALSE, rts |-> FALSE], [dtr |-> FALSE, rts |-> TRUE],
            [dtr |-> FALSE, rts |-> TRUE] >>
    [] method = "combined" ->
         << [dtr |-> FALSE, rts |-> FALSE], [dtr |-> TRUE, rts |-> TRUE],
            [dtr |-> TRUE, rts |-> TRUE] >>

\* the line states a reset pattern drives, in order: [dtr, rts]
resetSignals(method) ==
  CASE method = "dtr" ->
         << [dtr |-> FALSE, rts |-> FALSE], [dtr |-> TRUE, rts |-> FALSE],
            [dtr |-> FALSE, rts |-> FALSE] >>
    [] method = "rts" ->
         << [dtr |-> FALSE, rts |-> FALSE], [dtr |-> FALSE, rts |-> TRUE],
            [dtr |-> FALSE, rts |-> FALSE] >>
    [] method = "combined" ->
         << [dtr |-> FALSE, rts |-> FALSE], [dtr |-> TRUE, rts |-> TRUE],
            [dtr |-> FALSE, rts |-> FALSE] >>

\* 20 + ((page + 1) / totalPages) * 70, as the fraction num/den
pageProgress(page, total) == [num |-> 20 * total + 70 * (page + 1), den |-> total]

Percent(n) == [num |-> n, den |-> 1]

\* a firmware image of a given length: bytes that differ from place to place
Image(len) == [i \in 1..len |-> (7 * i + 3) % 256]

\* ------------------------------------------------------------ parseHexFile
\* a string is the sequence of its characters
NaN == -1

WhiteSpace == { " ", "\t", "\r" }

UpperDigits == << "0", "1", "2", "3", "4", "5", "6", "7",
                 "8", "9", "A", "B", "C", "D", "E", "F" >>
LowerDigits == << "0", "1", "2", "3", "4", "5", "6", "7",
                 "8", "9", "a", "b", "c", "d", "e", "f" >>

\* the value of a character as a digit of radix 16, NaN if it is none
digit(c) ==
  IF \E v \in 1..16 : UpperDigits[v] = c \/ LowerDigits[v] = c
  THEN (CHOOSE v \in 1..16 : UpperDigits[v] = c \/ LowerDigits[v] = c) - 1
  ELSE NaN

\* String.prototype.split with a one-character separator
RECURSIVE split(_, _)
split(s, sep) ==
  IF \E i \in 1..Len(s) : s[i] = sep
  THEN LET i == CHOOSE k \in 1..Len(s) :
                  s[k] = sep /\ \A j \in 1..(k - 1) : s[j] # sep
       IN  << SubSeq(s, 1, i - 1) >> \o split(SubSeq(s, i + 1, Len(s)), sep)
  ELSE << s >>

startsWith(line, c) == Len(line) > 0 /\ line[1] = c

\* String.prototype.substring(a, b) for 0 <= a <= b: both ends are clamped
substring(s, a, b) == SubSeq(s, Min(a, Len(s)) + 1, Min(b, Len(s)))

\* parseInt(s, 16): leading white space is skipped, then the longest run of
\* digits is the number; NaN when that run is empty
RECURSIVE digitsValue(_, _)
digitsValue(s, acc) ==
  IF s = <<>> \/ digit(Head(s)) = NaN THEN acc
  ELSE digitsValue(Tail(s), 16 * acc + digit(Head(s)))

RECURSIVE parseInt(_)
parseInt(s) ==
  IF s = <<>> THEN NaN
  ELSE IF Head(s) \in WhiteSpace THEN parseInt(Tail(s))
  ELSE IF digit(Head(s)) = NaN THEN NaN
  ELSE digitsValue(s, 0)

\* the numbers one line pushes onto data, with the record type ignored
lineBytesAnyType(line) ==
  LET byteCount == parseInt(substring(line, 1, 3))
  IN  IF byteCount = NaN THEN <<>>
      ELSE [i \in 1..byteCount |->
              parseInt(substring(line, 9 + (i - 1) * 2, 11 + (i - 1) * 2))]

\* the numbers one line pushes onto data
lineBytes(line) ==
  LET byteCount == parseInt(substring(line, 1, 3))
      recordType == parseInt(substring(line, 7, 9))
  IN  IF recordType = 0 /\ byteCount # NaN
      THEN [i \in 1..byteCount |->
              parseInt(substring(line, 9 + (i - 1) * 2, 11 + (i - 1) * 2))]
      ELSE <<>>

\* new Uint8Array(number[]): NaN becomes 0, a number its low eight bits
Uint8Array(d) == [i \in 1..Len(d) |-> IF d[i] = NaN THEN 0 ELSE d[i] % 256]

\* ---- the files parseHexFile is given: Intel-HEX records and other lines
Record(type, addr, bytes) ==
  [kind |-> "record", type |-> type, addr |-> addr, bytes |-> bytes,
   chars |-> <<>>]

TextLine(chars) ==
  [kind |-> "text", type |-> 0, addr |-> 0, bytes |-> <<>>, chars |-> chars]

HexItems ==
  { Record(0, 0, << 12, 148 >>),        \* data
    Record(0, 256, << 255 >>),          \* data
    Record(0, 4660, <<>>),              \* data record without data
    Record(1, 0, <<>>),                 \* end of file
    Record(4, 0, << 0, 1 >>),           \* extended linear address
    Record(2, 0, << 16, 0 >>),          \* extended segment address
    TextLine(<< ";", "0", "0" >>),
    TextLine(<< " ", ":", "0", "1", "0", "0", "0", "0", "0", "0",
                "A", "A", "5", "5" >>) }

\* a line that begins like a record and breaks the format
MalformedLine(chars) ==
  [kind |-> "malformed", type |-> 0, addr |-> 0, bytes |-> <<>>,
   chars |-> chars]

MalformedItems ==
  { \* type 00, count 2, the text ends after one payload byte
    MalformedLine(<< ":", "0", "2", "0", "0", "0", "0", "0", "0", "A", "B" >>),
    \* type 00, count 1, the payload is no hex digits
    MalformedLine(<< ":", "0", "1", "0", "0", "0", "0", "0", "0", "Z", "Z",
                     "F", "F" >>),
    \* the start code and nothing else
    MalformedLine(<< ":" >>) }

RECURSIVE SeqsUpTo(_, _)
SeqsUpTo(S, n) ==
  IF n = 0 THEN { <<>> }
  ELSE LET shorter == SeqsUpTo(S, n - 1)
       IN  shorter \cup { Append(q, x) : q \in shorter, x \in S }

HexFiles ==
  [ items : SeqsUpTo(HexItems, MaxRecords),
    eol : { << "\n" >>, << "\r", "\n" >> },
    lower : BOOLEAN ]

\* files in which malformed lines stand among data records
HexFilesMalformed ==
  [ items : SeqsUpTo(MalformedItems \cup { Record(0, 0, << 12, 148 >>),
                                          Record(1, 0, <<>>) }, MaxRecords),
    eol : { << "\n" >>, << "\r", "\n" >> },
    lower : BOOLEAN ]

hex2(b, lower) ==
  LET digits == IF lower THEN LowerDigits ELSE UpperDigits
  IN  << digits[((b \div 16) % 16) + 1], digits[(b % 16) + 1] >>

RECURSIVE Sum(_)
Sum(bytes) == IF bytes = <<>> THEN 0 ELSE Head(bytes) + Sum(Tail(bytes))

\* ':' count address type data checksum, every byte as two digits
RenderRecord(r, lower) ==
  LET head == << Len(r.bytes), r.addr \div 256, r.addr % 256, r.type >>
      body == head \o r.bytes
      all == Append(body, (256 - (Sum(body) % 256)) % 256)
  IN  << ":" >> \o Flatten([i \in 1..Len(all) |-> hex2(all[i], lower)])

RenderItem(it, lower) ==
  IF it.kind = "record" THEN RenderRecord(it, lower) ELSE it.chars

Render(file) ==
  Flatten([i \in 1..Len(file.items) |->
             RenderItem(file.items[i], file.lower) \o file.eol])


\* ------------------------------------------------------------ state
VARIABLES
  \* the call's arguments and the environment's character, fixed for a run
  board,        \* index into ARDUINO_BOARDS
  hexData,      \* the firmware image
  devMode,      \* how the device answers, one of DevModes
  bannerLen,    \* chunks the device sends by itself after a reset pulse
  faultKind,    \* which kind of call may fail in this run ("none": none)
  faultsLeft,   \* failures still to come
  \* the port and its streams
  portOpen, portBaud, readerLocked, writerLocked, signals,
  nAbandoned,   \* pending reader.read() requests nobody awaits any more
  liveRead,     \* a pending reader.read() that readWithTimeout is racing
  streamQ,      \* chunks queued in the readable stream, no read pending
  wire,         \* chunks the device has sent that have not arrived yet
  devPulse,     \* the reset pulse the device last saw ("none" before any)
  \* uploadToArduino / attemptSync
  pc, baudIdx, methodIdx, attempt, synced, connected, page,
  pendingErr,   \* the exception travelling through the finally block
  outcome,      \* of the returned promise: "pending", "resolved", "rejected"
  err,          \* the rejection's cause
  \* resetBoardDTR / resetBoardRTS / resetBoardCombined
  rstStep, rstRet,
  \* readWithTimeout
  rtTimeout, rtElapsed, rtRet, buffer, response,
  \* what an observer of the port and of the callbacks has seen
  tx,           \* frames written, in order
  progressLog,  \* progress events emitted, in order
  emitTx,       \* for each of them, the frames written before it
  tried,        \* (baud, reset method) pairs handed to attemptSync
  rxDelivered,  \* bytes the readable stream received since port.open
  rxReturned,   \* bytes readWithTimeout calls returned since port.open
  probeLog,     \* GET_SYNC writes of the current pair: resolved and rejected
  resetLog,     \* reset patterns run in the current pair: the method, the
                \* probes attempted before, the line states driven so far
  abortRequested, \* the caller has decided to abort the upload
  \* two uploadToArduino calls on one port
  ccBoard, ccPort, ccPc, ccCand, ccAttempt, ccSynced, ccStep,
  ccHolds,      \* the call's port.open resolved and it has not closed the port
  ccWrites,     \* frames the call has written
  \* parseHexFile on its own
  hexFile,      \* the records and text lines the file was written from
  hexContent,   \* the file's text, character by character
  hexPc, lines, hexLine, data,
  hexResult,    \* the Uint8Array returned
  \* the LOAD_ADDRESS computation on its own
  addrPage, addrFrame

scenVars == << board, hexData, devMode, bannerLen, faultKind >>
portVars == << portOpen, portBaud, readerLocked, writerLocked, signals >>
streamVars == << nAbandoned, liveRead, streamQ, wire, rxDelivered >>
ctlVars == << baudIdx, methodIdx, attempt, synced, connected, page >>
endVars == << pendingErr, outcome, err >>
rstVars == << rstStep, rstRet >>
rtVars == << rtTimeout, rtElapsed, rtRet, buffer, response, rxReturned >>
hexVars == << hexFile, hexContent, hexPc, lines, hexLine, data, hexResult >>
addrVars == << addrPage, addrFrame >>

histVars == << tried, probeLog, resetLog >>
ccVars == << ccBoard, ccPort, ccPc, ccCand, ccAttempt, ccSynced, ccStep,
            ccHolds, ccWrites >>
extraVars == << ccVars, abortRequested >>

uploadVars == << scenVars, faultsLeft, portVars, streamVars, devPulse, pc,
                ctlVars, endVars, rstVars, rtVars, tx, progressLog, emitTx, histVars >>

vars == << extraVars, scenVars, faultsLeft, portVars, streamVars, devPulse, pc, ctlVars,
           endVars, rstVars, rtVars, tx, progressLog, emitTx, histVars, hexVars,
           addrVars >>

FaultKinds == { "open", "handles", "signals", "write", "progress",
                "cancel", "writerClose", "portClose" }
\* "silent" answers nothing, "ack" answers every frame, "sel" answers at 57600
\* baud after a DTR pulse, "syncOnly" answers the sync probe and nothing else,
\* "rev" answers every frame with the two bytes in the other order
DevModes == { "silent", "ack", "sel", "syncOnly", "rev" }

idle == [dtr |-> FALSE, rts |-> FALSE]

\* the upload's variables before uploadToArduino has done anything
UploadStart ==
  /\ portOpen = FALSE /\ portBaud = 0
  /\ readerLocked = FALSE /\ writerLocked = FALSE /\ signals = idle
  /\ nAbandoned = 0 /\ liveRead = FALSE /\ streamQ = <<>> /\ wire = <<>>
  /\ devPulse = "none"
  /\ pc = "as_open" /\ baudIdx = 1 /\ methodIdx = 1
  /\ attempt = 0 /\ synced = FALSE /\ connected = FALSE /\ page = 0
  /\ pendingErr = "none" /\ outcome = "pending" /\ err = "none"
  /\ rstStep = 0 /\ rstRet = "none"
  /\ rtTimeout = 0 /\ rtElapsed = 0 /\ rtRet = "none"
  /\ buffer = <<>> /\ response = <<>>
  /\ tx = <<>> /\ progressLog = <<>> /\ emitTx = <<>> /\ tried = <<>>
  /\ rxDelivered = <<>> /\ rxReturned = <<>>
  /\ probeLog = [written |-> 0, rejected |-> 0] /\ resetLog = <<>>

NoFile == [items |-> <<>>, eol |-> << "\n" >>, lower |-> FALSE]

HexIdle ==
  /\ hexFile = NoFile /\ hexContent = <<>> /\ hexPc = "idle"
  /\ lines = <<>> /\ hexLine = 0 /\ data = <<>> /\ hexResult = <<>>
AddrIdle == addrPage = 0 /\ addrFrame = <<>>

\* the two calls that may run at once
Calls == { 1, 2 }

\* no second call, and no abort asked for
ExtraIdle ==
  /\ ccBoard = 1 /\ ccPort = [open |-> FALSE, reader |-> 0, writer |-> 0]
  /\ ccPc = [p \in Calls |-> "idle"] /\ ccCand = [p \in Calls |-> 1]
  /\ ccAttempt = [p \in Calls |-> 0] /\ ccSynced = [p \in Calls |-> FALSE]
  /\ ccStep = [p \in Calls |-> 0] /\ ccHolds = [p \in Calls |-> FALSE]
  /\ ccWrites = [p \in Calls |-> 0]
  /\ abortRequested = FALSE

Init ==
  /\ board \in 1..Len(ARDUINO_BOARDS)
  /\ hexData \in { Image(len) : len \in ImageLens }
  /\ devMode \in DevModes
  /\ bannerLen \in 0..MaxBanner
  /\ faultKind \in FaultKinds \cup {"none"}
  /\ faultsLeft = IF faultKind = "none" THEN 0 ELSE MaxFaults
  \* runs with a failing call upload the one-page image
  /\ faultKind # "none" => Len(hexData) = pageSize
  \* the last two devices are run behind the first board, with no failing call
  /\ devMode \in { "syncOnly", "rev" } => (board = 1 /\ faultKind = "none")
  /\ devMode = "rev" => Len(hexData) = pageSize
  /\ UploadStart /\ HexIdle /\ AddrIdle /\ ExtraIdle

\* ------------------------------------------------------------ environment
\* the outcomes an awaited call of a kind can have in this state
Outcomes(kind) ==
  IF faultKind = kind /\ faultsLeft > 0 THEN {TRUE, FALSE} ELSE {TRUE}

Spend(ok) == faultsLeft' = IF ok THEN faultsLeft ELSE faultsLeft - 1

baud == baudRates(ARDUINO_BOARDS[board])[baudIdx]
method == resetMethods[methodIdx]

\* what the device sends back for a frame written to it
deviceReply(frame) ==
  CASE devMode = "silent" -> <<>>
    [] devMode = "ack" -> << << STK_INSYNC, STK_OK >> >>
    [] devMode = "sel" ->
         IF portBaud = 57600 /\ devPulse = "dtr"
         THEN << << STK_INSYNC, STK_OK >> >> ELSE <<>>
    [] devMode = "syncOnly" ->
         IF frame = syncCmd THEN << << STK_INSYNC, STK_OK >> >> ELSE <<>>
    [] devMode = "rev" -> << << STK_OK, STK_INSYNC >> >>

\* what it sends by itself when a reset pulse ends
banner == [i \in 1..bannerLen |-> << 0 >>]

pulseOf(s) ==
  IF s.dtr /\ s.rts THEN "combined"
  ELSE IF s.dtr THEN "dtr" ELSE IF s.rts THEN "rts" ELSE "none"

\* onProgress({ stage, progress, ... }) is called
Emit(stage, pct) ==
  /\ progressLog' = Append(progressLog,
                           [stage |-> stage, num |-> pct.num, den |-> pct.den])
  /\ emitTx' = Append(emitTx, Len(tx))

\* the promise of uploadToArduino rejects with e and nothing else runs
Escape(e) == outcome' = "rejected" /\ err' = e /\ pc' = "done"


fixedVars == << scenVars, hexVars, addrVars, extraVars >>

\* the next frame can leave (see MaxWire)
CanWrite == Len(wire) < MaxWire

\* writer.write(frame): the device answers what it answers to that frame
Write(ok, frame) ==
  IF ok THEN tx' = Append(tx, frame) /\ wire' = wire \o deviceReply(frame)
        ELSE UNCHANGED << tx, wire >>

\* readWithTimeout(reader, timeout) is entered; ret is where its result goes
StartRead(timeout, ret) ==
  /\ rtTimeout' = timeout /\ rtElapsed' = 0 /\ rtRet' = ret
  /\ buffer' = <<>> /\ pc' = "rt_loop"
  /\ UNCHANGED << response, rxReturned >>

\* readWithTimeout returns new Uint8Array(buffer)
Return(buf) ==
  /\ buffer' = buf /\ response' = buf
  /\ rxReturned' = rxReturned \o buf /\ pc' = rtRet

\* the same with the lock released and the pending reads left as they are
CancelReaderKeepsReads(ok) ==
  IF ok THEN /\ readerLocked' = FALSE
             /\ UNCHANGED << nAbandoned, liveRead, streamQ >>
        ELSE UNCHANGED << nAbandoned, liveRead, streamQ, readerLocked >>

\* reader.cancel() followed by reader.releaseLock(), in one try block: the
\* cancel settles every pending read and drops what was queued
CancelReader(ok) ==
  IF ok THEN /\ nAbandoned' = 0 /\ liveRead' = FALSE /\ streamQ' = <<>>
             /\ readerLocked' = FALSE
        ELSE UNCHANGED << nAbandoned, liveRead, streamQ, readerLocked >>

\* writer.close() followed by writer.releaseLock(), in one try block
CloseWriter(ok) ==
  IF ok THEN writerLocked' = FALSE ELSE UNCHANGED writerLocked

\* port.close(): rejects on a closed port and while a stream is locked
\* what was queued or on its way goes with the port's streams
ClosePort(ok) ==
  IF ok /\ portOpen /\ ~readerLocked /\ ~writerLocked
  THEN /\ portOpen' = FALSE /\ wire' = <<>> /\ streamQ' = <<>>
       /\ nAbandoned' = 0 /\ liveRead' = FALSE
  ELSE UNCHANGED << portOpen, wire, streamQ, nAbandoned, liveRead >>

\* ------------------------------------------------------------ readWithTimeout
\* top of the while loop: reader.read() is called and raced against a timer
readWithTimeout_issue ==
  /\ pc = "rt_loop"
  /\ IF rtElapsed < rtTimeout
     THEN IF streamQ # <<>>
          THEN \* a queued chunk settles the read at once
               /\ streamQ' = Tail(streamQ)
               /\ IF responseSynced(buffer \o Head(streamQ))
                  THEN Return(buffer \o Head(streamQ))
                  ELSE /\ buffer' = buffer \o Head(streamQ)
                       /\ UNCHANGED << pc, response, rxReturned >>
               /\ UNCHANGED liveRead
          ELSE /\ liveRead' = TRUE /\ pc' = "rt_race"
               /\ UNCHANGED << streamQ, buffer, response, rxReturned >>
     ELSE Return(buffer) /\ UNCHANGED << streamQ, liveRead >>
  /\ UNCHANGED << fixedVars, faultsLeft, portVars, nAbandoned, wire,
                  rxDelivered, devPulse, ctlVars, endVars, rstVars,
                  rtTimeout, rtElapsed, rtRet, tx, progressLog, emitTx, histVars >>

\* the timer wins the race: {value: undefined, done: true} breaks the loop,
\* and the read it raced stays pending on the reader
readWithTimeout_timer ==
  /\ pc = "rt_race" /\ liveRead
  /\ rtElapsed' = rtElapsed + Min(rtTimeout - rtElapsed, RACE_TIMER)
  /\ liveRead' = FALSE
  /\ nAbandoned' = nAbandoned + 1
  /\ Return(buffer)
  /\ UNCHANGED << fixedVars, faultsLeft, portVars, streamQ, wire, rxDelivered,
                  devPulse, ctlVars, endVars, rstVars, rtTimeout, rtRet,
                  tx, progressLog, emitTx, histVars >>

\* a chunk arrives and the read being raced is the oldest pending one
readWithTimeout_read ==
  /\ pc = "rt_race" /\ liveRead /\ nAbandoned = 0
  /\ portOpen /\ wire # <<>>
  /\ wire' = Tail(wire)
  /\ rxDelivered' = rxDelivered \o Head(wire)
  /\ liveRead' = FALSE
  /\ IF responseSynced(buffer \o Head(wire))
     THEN Return(buffer \o Head(wire))
     ELSE /\ buffer' = buffer \o Head(wire) /\ pc' = "rt_loop"
          /\ UNCHANGED << response, rxReturned >>
  /\ UNCHANGED << fixedVars, faultsLeft, portVars, nAbandoned, streamQ,
                  devPulse, ctlVars, endVars, rstVars, rtTimeout, rtElapsed,
                  rtRet, tx, progressLog, emitTx, histVars >>

\* a chunk arrives otherwise: the oldest pending read takes it (an abandoned
\* one: nobody sees the chunk), or the stream queues it
chunkArrives ==
  /\ outcome = "pending" /\ portOpen /\ wire # <<>>
  /\ ~(liveRead /\ nAbandoned = 0)
  /\ wire' = Tail(wire)
  /\ rxDelivered' = rxDelivered \o Head(wire)
  /\ IF nAbandoned > 0
     THEN nAbandoned' = nAbandoned - 1 /\ UNCHANGED streamQ
     ELSE streamQ' = Append(streamQ, Head(wire)) /\ UNCHANGED nAbandoned
  /\ UNCHANGED << fixedVars, faultsLeft, portVars, liveRead, devPulse, pc,
                  ctlVars, endVars, rstVars, rtVars, tx, progressLog, emitTx, histVars >>

\* ------------------------------------------------------------ reset patterns
\* one port.setSignals of resetBoardDTR / RTS / Combined and the wait after it
resetBoard_setSignals ==
  /\ pc = "rst"
  /\ \E ok \in Outcomes("signals") :
       /\ Spend(ok)
       /\ LET log == IF rstStep = 1
                     THEN Append(resetLog,
                                 [method |-> method,
                                  after |-> probeLog.written + probeLog.rejected,
                                  states |-> <<>>])
                     ELSE resetLog
              driven == resetSignals(method)[rstStep]
          IN  resetLog' = IF ok
                          THEN [log EXCEPT ![Len(log)].states = Append(@, driven)]
                          ELSE log
       /\ IF ok
          THEN /\ signals' = resetSignals(method)[rstStep]
               /\ IF pulseOf(signals) # "none" /\ pulseOf(signals') = "none"
                  THEN devPulse' = pulseOf(signals) /\ wire' = wire \o banner
                  ELSE UNCHANGED << devPulse, wire >>
               /\ IF rstStep < 3
                  THEN /\ rstStep' = rstStep + 1
                       /\ UNCHANGED << pc, attempt, rtVars, endVars >>
                  ELSE /\ rstStep' = 0
                       /\ IF rstRet = "initial"
                          THEN StartRead(DRAIN_TIMEOUT, "as_drained")
                               /\ UNCHANGED attempt
                          ELSE /\ attempt' = attempt + 1 /\ pc' = "as_loop"
                               /\ UNCHANGED rtVars
                       /\ UNCHANGED endVars
          ELSE /\ rstStep' = 0
               /\ IF rstRet = "initial"
                  THEN Escape("signals") /\ UNCHANGED << attempt, pendingErr >>
                  ELSE /\ attempt' = attempt + 1 /\ pc' = "as_loop"
                       /\ UNCHANGED endVars
               /\ UNCHANGED << signals, devPulse, wire, rtVars >>
  /\ UNCHANGED << fixedVars, portOpen, portBaud, readerLocked, writerLocked,
                  nAbandoned, liveRead, streamQ, rxDelivered, baudIdx,
                  methodIdx, synced, connected, page, rstRet, tx, progressLog, emitTx,
                  tried, probeLog >>


\* ------------------------------------------------------------ attemptSync
\* the same with the rejection of port.open swallowed and the attempt going on
attemptSync_openUnchecked ==
  /\ pc = "as_open"
  /\ tried' = Append(tried, << baud, method >>)
  /\ synced' = FALSE /\ attempt' = 0
  /\ probeLog' = [written |-> 0, rejected |-> 0] /\ resetLog' = <<>>
  /\ \E ok \in Outcomes("open") :
       /\ Spend(ok)
       /\ IF ok /\ ~portOpen
          THEN /\ portOpen' = TRUE /\ portBaud' = baud
               /\ rxDelivered' = <<>> /\ rxReturned' = <<>>
          ELSE UNCHANGED << portOpen, portBaud, rxDelivered, rxReturned >>
       /\ pc' = "as_handles"
  /\ UNCHANGED << fixedVars, readerLocked, writerLocked, signals, nAbandoned,
                  liveRead, streamQ, wire, devPulse, baudIdx, methodIdx,
                  connected, page, endVars, rstVars, rtTimeout, rtElapsed,
                  rtRet, buffer, response, tx, progressLog, emitTx >>

\* await port.open({ baudRate })
attemptSync_open ==
  /\ pc = "as_open"
  /\ tried' = Append(tried, << baud, method >>)
  /\ synced' = FALSE /\ attempt' = 0
  /\ probeLog' = [written |-> 0, rejected |-> 0] /\ resetLog' = <<>>
  /\ \E ok \in Outcomes("open") :
       /\ Spend(ok)
       /\ IF ok /\ ~portOpen
          THEN /\ portOpen' = TRUE /\ portBaud' = baud
               /\ rxDelivered' = <<>> /\ rxReturned' = <<>>
               /\ pc' = "as_handles"
          ELSE /\ pc' = "up_result"
               /\ UNCHANGED << portOpen, portBaud, rxDelivered, rxReturned >>
  /\ UNCHANGED << fixedVars, readerLocked, writerLocked, signals, nAbandoned,
                  liveRead, streamQ, wire, devPulse, baudIdx, methodIdx,
                  connected, page, endVars, rstVars, rtTimeout, rtElapsed,
                  rtRet, buffer, response, tx, progressLog, emitTx >>

\* getWriter, getReader, the 'connecting' event and the first setSignals call
attemptSync_handles ==
  /\ pc = "as_handles"
  /\ \E h \in Outcomes("handles"), p \in Outcomes("progress") :
       IF ~h
       THEN /\ Spend(h)
            /\ writerLocked' = TRUE /\ pc' = "as_nohandles"
            /\ UNCHANGED << readerLocked, progressLog, emitTx, rstVars, endVars >>
       ELSE /\ Spend(p)
            /\ writerLocked' = TRUE /\ readerLocked' = TRUE
            /\ Emit("connecting", Percent(5))
            /\ IF p
               THEN /\ pc' = "rst" /\ rstStep' = 1 /\ rstRet' = "initial"
                    /\ UNCHANGED endVars
               ELSE Escape("progress") /\ UNCHANGED << rstVars, pendingErr >>
  /\ UNCHANGED << fixedVars, portOpen, portBaud, signals, streamVars,
                  devPulse, ctlVars, rtVars, tx, histVars >>

\* the drain returned: the 'syncing' event, then the probe loop starts
attemptSync_drained ==
  /\ pc = "as_drained"
  /\ Emit("syncing", Percent(10))
  /\ \E p \in Outcomes("progress") :
       /\ Spend(p)
       /\ IF p
          THEN /\ synced' = FALSE /\ attempt' = 0 /\ pc' = "as_loop"
               /\ UNCHANGED endVars
          ELSE Escape("progress") /\ UNCHANGED << synced, attempt, pendingErr >>
  /\ UNCHANGED << fixedVars, portVars, streamVars, devPulse, baudIdx,
                  methodIdx, connected, page, rstVars, rtVars, tx, histVars >>

\* the same with a rejected write retried without counting the attempt
attemptSync_probeRetry ==
  /\ pc = "as_loop"
  /\ IF attempt < maxAttempts /\ ~synced
     THEN \E ok \in Outcomes("write") :
            /\ CanWrite
            /\ Spend(ok)
            /\ Write(ok, syncCmd)
            /\ probeLog' = IF ok
                           THEN [probeLog EXCEPT !.written = @ + 1]
                           ELSE [probeLog EXCEPT !.rejected = @ + 1]
            /\ IF ok
               THEN StartRead(SYNC_TIMEOUT, "as_resp") /\ UNCHANGED attempt
               ELSE UNCHANGED << attempt, pc, rtVars >>
     ELSE /\ pc' = IF synced THEN "up_result" ELSE "as_cancel"
          /\ UNCHANGED << faultsLeft, tx, wire, attempt, rtVars, probeLog >>
  /\ UNCHANGED << fixedVars, portVars, nAbandoned, liveRead, streamQ,
                  rxDelivered, devPulse, baudIdx, methodIdx, synced, connected,
                  page, endVars, rstVars, progressLog, emitTx, tried, resetLog >>

\* the for loop's test, and one GET_SYNC probe written; a write that rejects
\* is caught inside the loop and the loop's attempt++ runs
attemptSync_probe ==
  /\ pc = "as_loop"
  /\ IF attempt < maxAttempts /\ ~synced
     THEN \E ok \in Outcomes("write") :
            /\ CanWrite
            /\ Spend(ok)
            /\ Write(ok, syncCmd)
            /\ probeLog' = IF ok
                           THEN [probeLog EXCEPT !.written = @ + 1]
                           ELSE [probeLog EXCEPT !.rejected = @ + 1]
            /\ IF ok
               THEN StartRead(SYNC_TIMEOUT, "as_resp") /\ UNCHANGED attempt
               ELSE /\ attempt' = attempt + 1
                    /\ UNCHANGED << pc, rtVars >>
     ELSE /\ pc' = IF synced THEN "up_result" ELSE "as_cancel"
          /\ UNCHANGED << faultsLeft, tx, wire, attempt, rtVars, probeLog >>
  /\ UNCHANGED << fixedVars, portVars, nAbandoned, liveRead, streamQ,
                  rxDelivered, devPulse, baudIdx, methodIdx, synced, connected,
                  page, endVars, rstVars, progressLog, emitTx, tried, resetLog >>

\* the probe's response is looked at
attemptSync_response ==
  /\ pc = "as_resp"
  /\ IF Len(response) # 0 /\ responseSynced(response)
     THEN synced' = TRUE /\ pc' = "up_result"
     ELSE pc' = "as_wait" /\ UNCHANGED synced
  /\ UNCHANGED << fixedVars, faultsLeft, portVars, streamVars, devPulse,
                  baudIdx, methodIdx, attempt, connected, page, endVars,
                  rstVars, rtVars, tx, progressLog, emitTx, histVars >>

\* the same with the reset re-applied after every attempt from the fourth on
attemptSync_waitFromFourth ==
  /\ pc = "as_wait"
  /\ IF attempt >= 3
     THEN /\ pc' = "rst" /\ rstStep' = 1 /\ rstRet' = "reapply"
          /\ UNCHANGED attempt
     ELSE /\ attempt' = attempt + 1 /\ pc' = "as_loop"
          /\ UNCHANGED rstVars
  /\ UNCHANGED << fixedVars, faultsLeft, portVars, streamVars, devPulse,
                  baudIdx, methodIdx, synced, connected, page, endVars,
                  rtVars, tx, progressLog, emitTx, histVars >>

\* the 100 ms between attempts are over; the reset is re-applied once
attemptSync_wait ==
  /\ pc = "as_wait"
  /\ IF attempt = 3
     THEN /\ pc' = "rst" /\ rstStep' = 1 /\ rstRet' = "reapply"
          /\ UNCHANGED attempt
     ELSE /\ attempt' = attempt + 1 /\ pc' = "as_loop"
          /\ UNCHANGED rstVars
  /\ UNCHANGED << fixedVars, faultsLeft, portVars, streamVars, devPulse,
                  baudIdx, methodIdx, synced, connected, page, endVars,
                  rtVars, tx, progressLog, emitTx, histVars >>

\* cleanup on failure: try { await reader.cancel(); reader.releaseLock(); }
attemptSync_cancel ==
  /\ pc = "as_cancel"
  /\ \E ok \in Outcomes("cancel") : Spend(ok) /\ CancelReader(ok)
  /\ pc' = "as_wclose"
  /\ UNCHANGED << fixedVars, portOpen, portBaud, writerLocked, signals, wire,
                  rxDelivered, devPulse, ctlVars, endVars, rstVars, rtVars,
                  tx, progressLog, emitTx, histVars >>

\* try { await writer.close(); writer.releaseLock(); }
attemptSync_writerClose ==
  /\ pc = "as_wclose"
  /\ \E ok \in Outcomes("writerClose") : Spend(ok) /\ CloseWriter(ok)
  /\ pc' = "as_pclose"
  /\ UNCHANGED << fixedVars, portOpen, portBaud, readerLocked, signals,
                  streamVars, devPulse, ctlVars, endVars, rstVars, rtVars,
                  tx, progressLog, emitTx, histVars >>

\* try { await port.close(); }, after the cleanup or when a handle is missing
attemptSync_portClose ==
  /\ pc \in { "as_pclose", "as_nohandles" }
  /\ \E ok \in Outcomes("portClose") : Spend(ok) /\ ClosePort(ok)
  /\ pc' = "up_result"
  /\ UNCHANGED << fixedVars, portBaud, readerLocked, writerLocked, signals,
                  rxDelivered, devPulse, ctlVars, endVars, rstVars, rtVars,
                  tx, progressLog, emitTx, histVars >>


\* ------------------------------------------------------------ uploadToArduino
\* the step below without the break out of the two loops
uploadToArduino_resultNoBreak ==
  /\ pc = "up_result"
  /\ IF synced
     THEN connected' = TRUE /\ pc' = "up_settle"
     ELSE pc' = "up_settle" /\ UNCHANGED connected
  /\ UNCHANGED << fixedVars, faultsLeft, portVars, streamVars, devPulse,
                  baudIdx, methodIdx, attempt, synced, page, endVars, rstVars,
                  rtVars, tx, progressLog, emitTx, histVars >>

\* result of attemptSync: keep the session, or wait 500 ms for the next pair
uploadToArduino_result ==
  /\ pc = "up_result"
  /\ IF synced
     THEN connected' = TRUE /\ pc' = "up_enter"
     ELSE pc' = "up_settle" /\ UNCHANGED connected
  /\ UNCHANGED << fixedVars, faultsLeft, portVars, streamVars, devPulse,
                  baudIdx, methodIdx, attempt, synced, page, endVars, rstVars,
                  rtVars, tx, progressLog, emitTx, histVars >>

\* the same without the test of connected after the loops
uploadToArduino_settleUnchecked ==
  /\ pc = "up_settle"
  /\ IF methodIdx < Len(resetMethods)
     THEN methodIdx' = methodIdx + 1 /\ pc' = "as_open" /\ UNCHANGED baudIdx
     ELSE IF baudIdx < Len(baudRates(ARDUINO_BOARDS[board]))
     THEN baudIdx' = baudIdx + 1 /\ methodIdx' = 1 /\ pc' = "as_open"
     ELSE pc' = "up_enter" /\ UNCHANGED << baudIdx, methodIdx >>
  /\ UNCHANGED << fixedVars, faultsLeft, portVars, streamVars, devPulse,
                  attempt, synced, connected, page, endVars, rstVars, rtVars,
                  tx, progressLog, emitTx, histVars >>

\* the next (baud, method) pair, or the loops are over and nothing connected
uploadToArduino_settle ==
  /\ pc = "up_settle"
  /\ IF methodIdx < Len(resetMethods)
     THEN /\ methodIdx' = methodIdx + 1 /\ pc' = "as_open"
          /\ UNCHANGED << baudIdx, endVars >>
     ELSE IF baudIdx < Len(baudRates(ARDUINO_BOARDS[board]))
     THEN /\ baudIdx' = baudIdx + 1 /\ methodIdx' = 1 /\ pc' = "as_open"
          /\ UNCHANGED endVars
     ELSE Escape("manual_reset") /\ UNCHANGED << baudIdx, methodIdx, pendingErr >>
  /\ UNCHANGED << fixedVars, faultsLeft, portVars, streamVars, devPulse,
                  attempt, synced, connected, page, rstVars, rtVars, tx,
                  progressLog, emitTx, histVars >>

\* an exception inside the try block: on to the finally block
Throw(e) == pendingErr' = e /\ pc' = "fin_cancel"

\* the same with one more probe written in the place of ENTER_PROGMODE
uploadToArduino_enterProbes ==
  /\ pc = "up_enter" /\ CanWrite
  /\ \E ok \in Outcomes("write") :
       /\ Spend(ok)
       /\ Write(ok, syncCmd)
       /\ IF ok THEN StartRead(PROGMODE_TIMEOUT, "up_progmode")
                     /\ UNCHANGED pendingErr
                ELSE Throw("write") /\ UNCHANGED rtVars
  /\ UNCHANGED << fixedVars, portVars, nAbandoned, liveRead, streamQ,
                  rxDelivered, devPulse, ctlVars, outcome, err, rstVars,
                  progressLog, emitTx, histVars >>

\* await activeWriter.write([STK_ENTER_PROGMODE, CRC_EOP])
uploadToArduino_enter ==
  /\ pc = "up_enter" /\ CanWrite
  /\ \E ok \in Outcomes("write") :
       /\ Spend(ok)
       /\ Write(ok, enterCmd)
       /\ IF ok THEN StartRead(PROGMODE_TIMEOUT, "up_progmode")
                     /\ UNCHANGED pendingErr
                ELSE Throw("write") /\ UNCHANGED rtVars
  /\ UNCHANGED << fixedVars, portVars, nAbandoned, liveRead, streamQ,
                  rxDelivered, devPulse, ctlVars, outcome, err, rstVars,
                  progressLog, emitTx, histVars >>

\* the 'uploading' event at 20, and the page loop starts
uploadToArduino_progmode ==
  /\ pc = "up_progmode"
  /\ Emit("uploading", Percent(20))
  /\ \E p \in Outcomes("progress") :
       /\ Spend(p)
       /\ IF p THEN page' = 0 /\ pc' = "up_pages" /\ UNCHANGED pendingErr
               ELSE Throw("progress") /\ UNCHANGED page
  /\ UNCHANGED << fixedVars, portVars, streamVars, devPulse, baudIdx,
                  methodIdx, attempt, synced, connected, outcome, err, rstVars,
                  rtVars, tx, histVars >>

\* the same with the loop's test after its body: page 0 is always written
uploadToArduino_loadAddressDoWhile ==
  /\ pc = "up_pages" /\ (page = 0 \/ page < totalPages(Len(hexData)))
  /\ CanWrite
  /\ \E ok \in Outcomes("write") :
       /\ Spend(ok)
       /\ Write(ok, addrCmd(page))
       /\ IF ok THEN StartRead(ADDR_TIMEOUT, "up_addr") /\ UNCHANGED pendingErr
                ELSE Throw("write") /\ UNCHANGED rtVars
  /\ UNCHANGED << fixedVars, portVars, nAbandoned, liveRead, streamQ,
                  rxDelivered, devPulse, ctlVars, outcome, err, rstVars,
                  progressLog, emitTx, histVars >>

\* one more page: await activeWriter.write(addrCmd)
uploadToArduino_loadAddress ==
  /\ pc = "up_pages" /\ page < totalPages(Len(hexData)) /\ CanWrite
  /\ \E ok \in Outcomes("write") :
       /\ Spend(ok)
       /\ Write(ok, addrCmd(page))
       /\ IF ok THEN StartRead(ADDR_TIMEOUT, "up_addr") /\ UNCHANGED pendingErr
                ELSE Throw("write") /\ UNCHANGED rtVars
  /\ UNCHANGED << fixedVars, portVars, nAbandoned, liveRead, streamQ,
                  rxDelivered, devPulse, ctlVars, outcome, err, rstVars,
                  progressLog, emitTx, histVars >>

\* await activeWriter.write(fullPacket)
uploadToArduino_progPage ==
  /\ pc = "up_addr" /\ CanWrite
  /\ \E ok \in Outcomes("write") :
       /\ Spend(ok)
       /\ Write(ok, fullPacket(hexData, page))
       /\ IF ok THEN StartRead(PAGE_TIMEOUT, "up_page") /\ UNCHANGED pendingErr
                ELSE Throw("write") /\ UNCHANGED rtVars
  /\ UNCHANGED << fixedVars, portVars, nAbandoned, liveRead, streamQ,
                  rxDelivered, devPulse, ctlVars, outcome, err, rstVars,
                  progressLog, emitTx, histVars >>

\* the same with a page that was not acknowledged treated as an error
uploadToArduino_pageDoneStrict ==
  /\ pc = "up_page"
  /\ IF includes(response, STK_INSYNC)
     THEN /\ Emit("uploading", pageProgress(page, totalPages(Len(hexData))))
          /\ page' = page + 1 /\ pc' = "up_pages"
          /\ UNCHANGED << pendingErr, faultsLeft >>
     ELSE Throw("progress") /\ UNCHANGED << page, progressLog, emitTx, faultsLeft >>
  /\ UNCHANGED << fixedVars, portVars, streamVars, devPulse, baudIdx,
                  methodIdx, attempt, synced, connected, outcome, err, rstVars,
                  rtVars, tx, histVars >>

\* the page's 'uploading' event, page++: the response was only looked at for
\* the warning
uploadToArduino_pageDone ==
  /\ pc = "up_page"
  /\ Emit("uploading", pageProgress(page, totalPages(Len(hexData))))
  /\ \E p \in Outcomes("progress") :
       /\ Spend(p)
       /\ IF p THEN page' = page + 1 /\ pc' = "up_pages" /\ UNCHANGED pendingErr
               ELSE Throw("progress") /\ UNCHANGED page
  /\ UNCHANGED << fixedVars, portVars, streamVars, devPulse, baudIdx,
                  methodIdx, attempt, synced, connected, outcome, err, rstVars,
                  rtVars, tx, histVars >>

\* no page left: the 'verifying' event, then LEAVE_PROGMODE is written
uploadToArduino_leave ==
  /\ pc = "up_pages" /\ ~(page < totalPages(Len(hexData))) /\ CanWrite
  /\ Emit("verifying", Percent(95))
  /\ \E p \in Outcomes("progress"), ok \in Outcomes("write") :
       /\ Spend(p /\ ok)
       /\ Write(p /\ ok, leaveCmd)
       /\ IF ~p THEN Throw("progress") /\ UNCHANGED rtVars
          ELSE IF ~ok THEN Throw("write") /\ UNCHANGED rtVars
          ELSE StartRead(LEAVE_TIMEOUT, "up_leave") /\ UNCHANGED pendingErr
  /\ UNCHANGED << fixedVars, portVars, nAbandoned, liveRead, streamQ,
                  rxDelivered, devPulse, ctlVars, outcome, err, rstVars, histVars >>

\* the 'done' event at 100; the try block ends
uploadToArduino_done ==
  /\ pc = "up_leave"
  /\ Emit("done", Percent(100))
  /\ \E p \in Outcomes("progress") :
       /\ Spend(p)
       /\ IF p THEN pc' = "fin_cancel" /\ UNCHANGED pendingErr
               ELSE Throw("progress")
  /\ UNCHANGED << fixedVars, portVars, streamVars, devPulse, ctlVars, outcome,
                  err, rstVars, rtVars, tx, histVars >>

\* finally: try { await activeReader.cancel(); activeReader.releaseLock(); }
uploadToArduino_finallyCancel ==
  /\ pc = "fin_cancel"
  /\ \E ok \in Outcomes("cancel") : Spend(ok) /\ CancelReader(ok)
  /\ pc' = "fin_wclose"
  /\ UNCHANGED << fixedVars, portOpen, portBaud, writerLocked, signals, wire,
                  rxDelivered, devPulse, ctlVars, endVars, rstVars, rtVars,
                  tx, progressLog, emitTx, histVars >>

\* finally: try { await activeWriter.close(); activeWriter.releaseLock(); }
uploadToArduino_finallyWriterClose ==
  /\ pc = "fin_wclose"
  /\ \E ok \in Outcomes("writerClose") : Spend(ok) /\ CloseWriter(ok)
  /\ pc' = "fin_pclose"
  /\ UNCHANGED << fixedVars, portOpen, portBaud, readerLocked, signals,
                  streamVars, devPulse, ctlVars, endVars, rstVars, rtVars,
                  tx, progressLog, emitTx, histVars >>

\* finally: try { await port.close(); }, then the promise settles
uploadToArduino_finallyPortClose ==
  /\ pc = "fin_pclose"
  /\ \E ok \in Outcomes("portClose") : Spend(ok) /\ ClosePort(ok)
  /\ outcome' = IF pendingErr = "none" THEN "resolved" ELSE "rejected"
  /\ err' = pendingErr
  /\ pc' = "done"
  /\ UNCHANGED << fixedVars, portBaud, readerLocked, writerLocked, signals,
                  rxDelivered, devPulse, ctlVars, pendingErr, rstVars, rtVars,
                  tx, progressLog, emitTx, histVars >>

\* ------------------------------------------------------------ parseHexFile
\* hexContent.split('\n').filter(line => line.startsWith(':'))
parseHexFile_split ==
  /\ hexPc = "start"
  /\ lines' = SelectSeq(split(hexContent, "\n"),
                        LAMBDA line : startsWith(line, ":"))
  /\ data' = <<>> /\ hexLine' = 1 /\ hexPc' = "loop"
  /\ UNCHANGED << hexFile, hexContent, hexResult, uploadVars, addrVars,
                  extraVars >>

\* one turn of the for loop over lines
parseHexFile_line ==
  /\ hexPc = "loop" /\ hexLine <= Len(lines)
  /\ data' = data \o lineBytes(lines[hexLine])
  /\ hexLine' = hexLine + 1
  /\ UNCHANGED << hexFile, hexContent, hexPc, lines, hexResult, uploadVars,
                  addrVars, extraVars >>

\* return new Uint8Array(data)
parseHexFile_return ==
  /\ hexPc = "loop" /\ hexLine > Len(lines)
  /\ hexResult' = Uint8Array(data) /\ hexPc' = "returned"
  /\ UNCHANGED << hexFile, hexContent, lines, hexLine, data, uploadVars,
                  addrVars, extraVars >>

\* ------------------------------------------------------------ addrCmd alone
\* the LOAD_ADDRESS frame of one page index
uploadToArduino_addrCmd ==
  /\ addrFrame = <<>>
  /\ addrFrame' = addrCmd(addrPage)
  /\ UNCHANGED << addrPage, uploadVars, hexVars, extraVars >>

\* ------------------------------------------------------------ specification
Program ==
  \/ attemptSync_open \/ attemptSync_handles \/ resetBoard_setSignals
  \/ attemptSync_drained \/ attemptSync_probe \/ attemptSync_response
  \/ attemptSync_wait \/ attemptSync_cancel \/ attemptSync_writerClose
  \/ attemptSync_portClose
  \/ readWithTimeout_issue \/ readWithTimeout_timer \/ readWithTimeout_read
  \/ uploadToArduino_result \/ uploadToArduino_settle \/ uploadToArduino_enter
  \/ uploadToArduino_progmode \/ uploadToArduino_loadAddress
  \/ uploadToArduino_progPage \/ uploadToArduino_pageDone
  \/ uploadToArduino_leave \/ uploadToArduino_done
  \/ uploadToArduino_finallyCancel \/ uploadToArduino_finallyWriterClose
  \/ uploadToArduino_finallyPortClose

Next == Program \/ chunkArrives

Spec == Init /\ [][Next]_vars

\* no upload is running
NoUpload ==
  /\ board = 1 /\ hexData = <<>> /\ devMode = "silent" /\ bannerLen = 0
  /\ faultKind = "none" /\ faultsLeft = 0
  /\ UploadStart

\* parseHexFile applied to the files of HexFiles
HexInit ==
  /\ hexFile \in HexFiles
  /\ hexContent = Render(hexFile)
  /\ hexPc = "start" /\ lines = <<>> /\ hexLine = 0 /\ data = <<>>
  /\ hexResult = <<>>
  /\ NoUpload /\ AddrIdle /\ ExtraIdle

HexNext == parseHexFile_split \/ parseHexFile_line \/ parseHexFile_return

\* parseHexFile applied to the files of HexFilesMalformed
HexMalformedInit ==
  /\ hexFile \in HexFilesMalformed
  /\ hexContent = Render(hexFile)
  /\ hexPc = "start" /\ lines = <<>> /\ hexLine = 0 /\ data = <<>>
  /\ hexResult = <<>>
  /\ NoUpload /\ AddrIdle /\ ExtraIdle

SpecHexMalformed == HexMalformedInit /\ [][HexNext]_vars

SpecHex == HexInit /\ [][HexNext]_vars

\* addrCmd applied to the page indices up to MaxAddrPage
AddrInit ==
  /\ addrPage \in 0..MaxAddrPage /\ addrFrame = <<>>
  /\ NoUpload /\ HexIdle /\ ExtraIdle

AddrNext == uploadToArduino_addrCmd

SpecAddr == AddrInit /\ [][AddrNext]_vars

\* the uploads to a device that sends nothing, for every board and image,
\* and the one-page upload to the first board for the other devices
FairInit ==
  Init /\ (devMode = "silent" \/ (board = 1 /\ Len(hexData) = pageSize))

\* every resumption of the program is run by the event loop, and every timer
\* it awaits fires; the device owes nothing
FairSpec == FairInit /\ [][Next]_vars /\ WF_vars(Program)

\* the caller decides to abort the upload it started: uploadToArduino takes
\* port, hexData, board, onProgress and onDebug, and returns a promise, so the
\* decision reaches nothing the upload reads
callerAborts ==
  /\ ~abortRequested /\ pc # "done"
  /\ abortRequested' = TRUE
  /\ UNCHANGED << uploadVars, hexVars, addrVars, ccVars >>

\* uploads of the first board in which no call fails and the caller may abort
AbortInit == Init /\ board = 1 /\ faultKind = "none"

AbortNext == Program \/ chunkArrives \/ callerAborts

SpecAbort == AbortInit /\ [][AbortNext]_vars

\* ------------------------------------------------------------ properties
DoneEmitted == \E i \in 1..Len(progressLog) : progressLog[i].stage = "done"

\* the (baud, reset method) pairs of a board, in the order of the two loops
AllPairs(b) ==
  [k \in 1..(Len(baudRates(b)) * Len(resetMethods)) |->
     << baudRates(b)[((k - 1) \div Len(resetMethods)) + 1],
        resetMethods[((k - 1) % Len(resetMethods)) + 1] >>]

\* the LOAD_ADDRESS and PROG_PAGE frames written, in order
PageFrames ==
  SelectSeq(tx, LAMBDA f : f[1] \in { STK_LOAD_ADDRESS, STK_PROG_PAGE })

ProgFrames == SelectSeq(tx, LAMBDA f : f[1] = STK_PROG_PAGE)

\* ceil(L / P) by its definition: the least n with n * P >= L
CeilDiv(L, P) == CHOOSE n \in 0..L : n * P >= L /\ (n = 0 \/ (n - 1) * P < L)

StageRank(stage) ==
  CASE stage = "connecting" -> 1 [] stage = "syncing" -> 2
    [] stage = "uploading" -> 3 [] stage = "verifying" -> 4
    [] stage = "done" -> 5

\* the type-00 payloads of a file's records, in file order
ExpectedImage(file) ==
  Flatten([i \in 1..Len(file.items) |->
             IF file.items[i].kind = "record" /\ file.items[i].type = 0
             THEN file.items[i].bytes ELSE <<>>])

\* C13: against a device that answers the sync probe and nothing else, an
\* upload that connected does not reject, and when it has settled it has
\* written LOAD_ADDRESS then PROG_PAGE for every page of the image and
\* LEAVE_PROGMODE last, has emitted done at 100 last, and has resolved.
C13_MissingAckGoesOn ==
  (devMode = "syncOnly" /\ connected) =>
    /\ outcome # "rejected"
    /\ pc = "done" =>
         LET n == CeilDiv(Len(hexData), pageSize)
             frames == PageFrames
         IN  /\ outcome = "resolved"
             /\ Len(frames) = 2 * n
             /\ \A k \in 0..(n - 1) :
                  /\ frames[2 * k + 1] = addrCmd(k)
                  /\ frames[2 * k + 2] = fullPacket(hexData, k)
             /\ tx[Len(tx)] = leaveCmd
             /\ progressLog[Len(progressLog)] =
                  [stage |-> "done", num |-> 100, den |-> 1]

C13_Witness ==
  /\ devMode = "syncOnly" /\ Len(hexData) = 300 /\ outcome = "resolved"
  /\ Len(ProgFrames) = 3 /\ response = <<>>

\* C14: every PROG_PAGE frame written for the Arduino Mega carries the length
\* field 256 and a payload of 256 bytes; for the other boards, 128.
C14_PageSizeOfBoard ==
  LET frames == ProgFrames
      size == IF includes(ARDUINO_BOARDS[board].name, "Mega") THEN 256 ELSE 128
  IN  \A k \in 1..Len(frames) :
        /\ 256 * frames[k][2] + frames[k][3] = size
        /\ Len(frames[k]) = 4 + size + 1

\* the baud rates of the pairs tried, each once, in the order of first use
RECURSIVE BaudsOf(_)
BaudsOf(pairs) ==
  IF pairs = <<>> THEN <<>>
  ELSE LET rest == BaudsOf(SubSeq(pairs, 1, Len(pairs) - 1))
           last == pairs[Len(pairs)][1]
       IN  IF includes(rest, last) THEN rest ELSE Append(rest, last)

\* C15 as stated: the baud rates an upload probes, in order, are 115200 then
\* 57600 when the board's name contains 'Nano' and the board's baudRate alone
\* otherwise.
C15_NanoBaudList ==
  LET b == ARDUINO_BOARDS[board]
      list == IF includes(b.name, "Nano") THEN << 115200, 57600 >>
              ELSE << b.baudRate >>
  IN  /\ IsPrefix(BaudsOf(tried), list)
      /\ (outcome = "rejected" /\ err = "manual_reset")
            => BaudsOf(tried) = list

\* C15 amended: the baud rates an upload probes, in order, are 57600 alone
\* when the board's fqbn contains 'atmega328old', otherwise 115200 then 57600
\* when its name contains 'Nano', otherwise the board's baudRate alone.
C15_BaudList ==
  LET b == ARDUINO_BOARDS[board]
      list == IF includes(b.fqbn, "atmega328old") THEN << 57600 >>
              ELSE IF includes(b.name, "Nano") THEN << 115200, 57600 >>
              ELSE << b.baudRate >>
  IN  /\ IsPrefix(BaudsOf(tried), list)
      /\ (outcome = "rejected" /\ err = "manual_reset")
            => BaudsOf(tried) = list

C15_Witness ==
  /\ board = 3 /\ outcome = "rejected" /\ err = "manual_reset"
  /\ BaudsOf(tried) = << 57600 >> /\ Len(tried) = Len(resetMethods)

\* C16: once the caller has aborted an upload in progress, no further frame
\* is written and no further read is issued, and the upload settles rejected
\* with the port closed.
C16_AbortStops ==
  /\ [][abortRequested => (tx' = tx /\ (liveRead' => liveRead))]_vars
  /\ []((abortRequested /\ pc = "done")
          => (outcome = "rejected" /\ ~portOpen))

\* C17: the pairs tried are the first pairs of the fixed order - the board's
\* baud rates outside, combined, dtr, rts inside -, none of them twice, and
\* no pair is tried once a pair has synced.
C17_FixedOrder ==
  /\ [](IsPrefix(tried, AllPairs(ARDUINO_BOARDS[board])))
  /\ [](\A i, j \in 1..Len(tried) : tried[i] = tried[j] => i = j)
  /\ [][(synced \/ connected) => tried' = tried]_vars

C17_Witness ==
  /\ connected /\ pc = "done" /\ Len(tried) = 5
  /\ tried[5] = << 57600, "dtr" >>

\* C18: a probe's response is taken as a sync only when it holds 0x14 at some
\* position and 0x10 at a later one.
C18_InSyncThenOk ==
  (pc = "up_result" /\ synced) =>
    \E i, j \in 1..Len(response) :
      i < j /\ response[i] = 20 /\ response[j] = 16

\* C19: for each pair at most maxAttempts probes are attempted, the rejected
\* writes among them; each probe written is the frame 0x30 0x20; and no probe
\* is attempted once the pair has synced.
C19_ProbeBudget ==
  /\ [](probeLog.written + probeLog.rejected <= 8)
  /\ [][probeLog'.written > probeLog.written
          => (~synced /\ tx' = Append(tx, << 48, 32 >>))]_vars
  /\ [][probeLog'.rejected > probeLog.rejected
          => (~synced /\ tx' = tx /\ attempt' = attempt + 1)]_vars
  /\ [][(tx' # tx /\ ~connected) => probeLog'.written = probeLog.written + 1]_vars

C19_Witness ==
  /\ pc = "as_cancel" /\ probeLog.rejected = 1 /\ probeLog.written = 7
  /\ Len(tx) = 7

\* C20: a port.open, a getWriter/getReader, a probe's write or a setSignals
\* that fails during the search fails its pair only: the upload rejects, if
\* it does, for the later write or with the manual-reset error after the
\* last pair, and a pair that failed is followed by the next pair while there
\* is one.
C20_SearchFailuresLocal ==
  ( /\ faultKind \in { "open", "handles", "write", "signals" }
    /\ outcome = "rejected" /\ ~connected )
    => ( /\ err = "manual_reset"
         /\ tried = AllPairs(ARDUINO_BOARDS[board]) )

C22_ClosedBeforeNextOpen ==
  [][tried' # tried => (~portOpen /\ ~readerLocked /\ ~writerLocked)]_vars

\* C23: the line states a reset pattern has driven are the first of three:
\* both low, then DTR high alone for dtr, RTS high alone for rts, both high
\* for combined, then both low; when the third is driven both lines are low;
\* and no frame is written while a pattern is in progress.
C23_ThreeLineStates ==
  /\ [](\A i \in 1..Len(resetLog) :
          LET m == resetLog[i].method
              low == [dtr |-> FALSE, rts |-> FALSE]
              active == [dtr |-> m \in { "dtr", "combined" },
                         rts |-> m \in { "rts", "combined" }]
          IN  IsPrefix(resetLog[i].states, << low, active, low >>))
  /\ []((resetLog # <<>> /\ Len(resetLog[Len(resetLog)].states) = 3)
          => (~signals.dtr /\ ~signals.rts))
  /\ [][pc = "rst" => tx' = tx]_vars

C23_Witness ==
  /\ Len(resetLog) = 2 /\ resetLog[2].method = "rts"
  /\ Len(resetLog[2].states) = 3 /\ resetLog[2].states[2].rts
  /\ ~signals.dtr /\ ~signals.rts /\ pc = "as_loop"

\* C24: LEAVE_PROGMODE is written after the last PROG_PAGE; the 'verifying'
\* event is emitted after LEAVE_PROGMODE was written and the 'done' event at
\* 100 after it - no 'verifying' event comes with LEAVE_PROGMODE unwritten.
C24_LeaveThenVerifying ==
  LET left(i) == \E k \in 1..emitTx[i] : tx[k] = << 81, 32 >>
  IN  /\ \A k \in 1..Len(tx) :
           tx[k] = << 81, 32 >> =>
             \A j \in 1..Len(tx) : tx[j][1] = STK_PROG_PAGE => j < k
      /\ \A i \in 1..Len(progressLog) :
           /\ progressLog[i].stage = "verifying" => left(i)
           /\ progressLog[i].stage = "done" =>
                /\ left(i) /\ progressLog[i].num = 100 * progressLog[i].den
                /\ i > 1 /\ progressLog[i - 1].stage = "verifying"

\* C25: at most one reader.read() is pending at any moment: the read being
\* raced and the reads that lost their race to a timer, together.
C25_OneReadOutstanding ==
  nAbandoned + (IF liveRead THEN 1 ELSE 0) <= 1

\* C26: readWithTimeout returns when what it collected holds 0x10 and 0x14,
\* or is two bytes or more, or when its deadline has elapsed - and it does not
\* go on reading with two bytes or more collected.
C26_ReturnsAtDeadline ==
  /\ [][(pc \in { "rt_loop", "rt_race" } /\ pc' \notin { "rt_loop", "rt_race" })
          => \/ includes(response', 16) /\ includes(response', 20)
             \/ Len(response') >= 2
             \/ rtElapsed' >= rtTimeout']_vars
  /\ [](pc \in { "rt_loop", "rt_race" } => Len(buffer) < 2)

\* C27: once the reader of a session has been cancelled and released, and
\* once the port is closed, no read is pending: neither the one being raced
\* nor one that lost its race to a timer.
C27_NoReadOutlivesSession ==
  (~portOpen \/ ~readerLocked) => (nAbandoned = 0 /\ ~liveRead)

C27_Witness ==
  /\ pc = "as_wclose" /\ devMode = "silent" /\ probeLog.written = 8
  /\ portOpen /\ ~readerLocked /\ nAbandoned = 0

\* C28: a line that breaks the record format adds no byte to the image:
\* parseHexFile returns as many bytes as the well-formed type-00 records of
\* the file carry, and they are those records' payloads in file order.
C28_MalformedSkipped ==
  hexPc = "returned" =>
    LET good == SelectSeq(hexFile.items,
                          LAMBDA it : it.kind = "record" /\ it.type = 0)
    IN  /\ Len(hexResult) = Sum([i \in 1..Len(good) |-> Len(good[i].bytes)])
        /\ hexResult = Flatten([i \in 1..Len(good) |-> good[i].bytes])

\* C29: in a teardown the reader lock is released once the cancel step is
\* over and the writer lock once the close step is over, whether the step
\* failed or not; and when only such a step failed, the port is closed when
\* the teardown is over.
C29_TeardownReleasesLocks ==
  /\ pc \in { "as_wclose", "fin_wclose" } => ~readerLocked
  /\ pc \in { "as_pclose", "fin_pclose" } => (~readerLocked /\ ~writerLocked)
  /\ (pc = "done" /\ connected /\ faultKind \in { "cancel", "writerClose" })
       => ~portOpen

\* C30: the frames of a resolved upload are one or more GET_SYNC probes,
\* then ENTER_PROGMODE once, then LOAD_ADDRESS and PROG_PAGE in turn, then
\* LEAVE_PROGMODE once; a frame written before the upload connected is a
\* probe, a frame written after the pair synced is none.
C30_CommandSequence ==
  /\ [](outcome = "resolved" =>
          LET k == Len(SelectSeq(tx, LAMBDA f : f = << 48, 32 >>))
              n == Len(tx)
          IN  /\ k >= 1 /\ n >= k + 2 /\ (n - k) % 2 = 0
              /\ \A i \in 1..k : tx[i] = << 48, 32 >>
              /\ tx[k + 1] = << 80, 32 >>
              /\ tx[n] = << 81, 32 >>
              /\ \A i \in (k + 2)..(n - 1) :
                   tx[i][1] = IF (i - k) % 2 = 0 THEN 85 ELSE 100)
  /\ [][tx' # tx =>
          LET frame == tx'[Len(tx')]
          IN  /\ ~connected => frame = << 48, 32 >>
              /\ synced => frame # << 48, 32 >>]_vars

C30_Witness ==
  /\ outcome = "resolved" /\ Len(tried) = 2 /\ Len(hexData) = 300
  /\ Len(tx) > maxAttempts + 8 /\ tx[maxAttempts + 1] = << 48, 32 >>

\* C31: an upload of the empty image that has connected writes no
\* LOAD_ADDRESS and no PROG_PAGE and does not reject, and every progress
\* event of it is a number; when it has settled it has written ENTER_PROGMODE
\* and LEAVE_PROGMODE, once each, has emitted done at 100 last and resolved.
C31_EmptyImage ==
  (hexData = <<>> /\ connected) =>
    /\ PageFrames = <<>>
    /\ outcome # "rejected"
    /\ \A i \in 1..Len(progressLog) : progressLog[i].den # 0
    /\ pc = "done" =>
         /\ outcome = "resolved"
         /\ Len(SelectSeq(tx, LAMBDA f : f = << 80, 32 >>)) = 1
         /\ Len(SelectSeq(tx, LAMBDA f : f = << 81, 32 >>)) = 1
         /\ progressLog[Len(progressLog)].stage = "done"
         /\ progressLog[Len(progressLog)].num
              = 100 * progressLog[Len(progressLog)].den

C31_Witness ==
  /\ hexData = <<>> /\ connected /\ outcome = "resolved"
  /\ tx[Len(tx)] = leaveCmd /\ tx[Len(tx) - 1] = enterCmd
  /\ Len(progressLog) >= 5

\* C32: the two address bytes of a LOAD_ADDRESS frame are the word address
\* modulo 2^16: the pages of an image of at most 131072 bytes have frames
\* that differ from one another, and a page with a word address of 65536 or
\* more has the frame of the page 65536 words before it.
C32_AddressWraps ==
  addrFrame # <<>> =>
    LET wordAddr == (addrPage * 128) \div 2
    IN  /\ addrFrame[2] + 256 * addrFrame[3] = wordAddr % 65536
        /\ addrPage * 128 < 131072 =>
             \A q \in 0..(addrPage - 1) : addrCmd(q) # addrFrame
        /\ wordAddr >= 65536 =>
             \E q \in 0..(addrPage - 1) :
               /\ (addrPage - q) * 64 = 65536
               /\ addrCmd(q) = addrFrame

C32_Witness ==
  /\ addrPage = 1025 /\ addrFrame = << 85, 64, 0, 32 >>

\* ------------------------------------------------------------ two calls
\* Two uploadToArduino calls on the same port, each as the code above, with
\* what does not touch the port left out: a probe's answer is any answer, the
\* reset and the reads are part of the step before them.
ccPairs == AllPairs(ARDUINO_BOARDS[ccBoard])

\* the frames of the upload phase of a one-page image
ccFrames ==
  << enterCmd, addrCmd(0), fullPacket(Image(pageSize), 0), leaveCmd >>

ccRest == << uploadVars, hexVars, addrVars, abortRequested, ccBoard >>

\* the same with the rejection of port.open swallowed: the handles are taken
\* when the streams are not locked
cc_openUnchecked(p) ==
  /\ ccPc[p] = "as_open"
  /\ ccSynced' = [ccSynced EXCEPT ![p] = FALSE]
  /\ ccAttempt' = [ccAttempt EXCEPT ![p] = 0]
  /\ IF ~ccPort.open
     THEN /\ ccPort' = [open |-> TRUE, reader |-> p, writer |-> p]
          /\ ccHolds' = [ccHolds EXCEPT ![p] = TRUE]
          /\ ccPc' = [ccPc EXCEPT ![p] = "as_loop"]
     ELSE IF ccPort.reader = 0 /\ ccPort.writer = 0
     THEN /\ ccPort' = [ccPort EXCEPT !.reader = p, !.writer = p]
          /\ ccPc' = [ccPc EXCEPT ![p] = "as_loop"]
          /\ UNCHANGED ccHolds
     ELSE /\ ccPc' = [ccPc EXCEPT ![p] = "up_result"]
          /\ UNCHANGED << ccPort, ccHolds >>
  /\ UNCHANGED << ccRest, ccCand, ccStep, ccWrites >>

\* attemptSync: port.open, rejected on an open port; then getWriter, getReader,
\* the reset and the drain
cc_open(p) ==
  /\ ccPc[p] = "as_open"
  /\ ccSynced' = [ccSynced EXCEPT ![p] = FALSE]
  /\ ccAttempt' = [ccAttempt EXCEPT ![p] = 0]
  /\ IF ~ccPort.open
     THEN /\ ccPort' = [open |-> TRUE, reader |-> p, writer |-> p]
          /\ ccHolds' = [ccHolds EXCEPT ![p] = TRUE]
          /\ ccPc' = [ccPc EXCEPT ![p] = "as_loop"]
     ELSE /\ ccPc' = [ccPc EXCEPT ![p] = "up_result"]
          /\ UNCHANGED << ccPort, ccHolds >>
  /\ UNCHANGED << ccRest, ccCand, ccStep, ccWrites >>

\* attemptSync: one probe written and its response read, or the loop is over
cc_probe(p) ==
  /\ ccPc[p] = "as_loop"
  /\ IF ccAttempt[p] < maxAttempts /\ ~ccSynced[p]
     THEN /\ ccWrites' = [ccWrites EXCEPT ![p] = @ + 1]
          /\ \E ok \in BOOLEAN :
               IF ok THEN ccSynced' = [ccSynced EXCEPT ![p] = TRUE]
                          /\ UNCHANGED ccAttempt
                     ELSE ccAttempt' = [ccAttempt EXCEPT ![p] = @ + 1]
                          /\ UNCHANGED ccSynced
          /\ UNCHANGED ccPc
     ELSE /\ ccPc' = [ccPc EXCEPT ![p] =
                        IF ccSynced[p] THEN "up_result" ELSE "as_cancel"]
          /\ UNCHANGED << ccWrites, ccSynced, ccAttempt >>
  /\ UNCHANGED << ccRest, ccPort, ccCand, ccStep, ccHolds >>

\* reader.cancel(); reader.releaseLock(), in attemptSync or in the finally block
cc_cancel(p) ==
  /\ ccPc[p] \in { "as_cancel", "fin_cancel" }
  /\ ccPort' = [ccPort EXCEPT !.reader = 0]
  /\ ccPc' = [ccPc EXCEPT ![p] =
                IF ccPc[p] = "as_cancel" THEN "as_wclose" ELSE "fin_wclose"]
  /\ UNCHANGED << ccRest, ccCand, ccAttempt, ccSynced, ccStep, ccHolds,
                  ccWrites >>

\* writer.close(); writer.releaseLock()
cc_writerClose(p) ==
  /\ ccPc[p] \in { "as_wclose", "fin_wclose" }
  /\ ccPort' = [ccPort EXCEPT !.writer = 0]
  /\ ccPc' = [ccPc EXCEPT ![p] =
                IF ccPc[p] = "as_wclose" THEN "as_pclose" ELSE "fin_pclose"]
  /\ UNCHANGED << ccRest, ccCand, ccAttempt, ccSynced, ccStep, ccHolds,
                  ccWrites >>

\* port.close(): rejects while a stream is locked
cc_portClose(p) ==
  /\ ccPc[p] \in { "as_pclose", "fin_pclose" }
  /\ IF ccPort.open /\ ccPort.reader = 0 /\ ccPort.writer = 0
     THEN /\ ccPort' = [ccPort EXCEPT !.open = FALSE]
          /\ ccHolds' = [ccHolds EXCEPT ![p] = FALSE]
     ELSE UNCHANGED << ccPort, ccHolds >>
  /\ ccPc' = [ccPc EXCEPT ![p] =
                IF ccPc[p] = "as_pclose" THEN "up_result" ELSE "resolved"]
  /\ UNCHANGED << ccRest, ccCand, ccAttempt, ccSynced, ccStep, ccWrites >>

\* uploadToArduino: the result of attemptSync, the next pair, or the throw
cc_result(p) ==
  /\ ccPc[p] = "up_result"
  /\ IF ccSynced[p]
     THEN /\ ccPc' = [ccPc EXCEPT ![p] = "up_frames"]
          /\ ccStep' = [ccStep EXCEPT ![p] = 1]
          /\ UNCHANGED ccCand
     ELSE IF ccCand[p] < Len(ccPairs)
     THEN /\ ccCand' = [ccCand EXCEPT ![p] = @ + 1]
          /\ ccPc' = [ccPc EXCEPT ![p] = "as_open"]
          /\ UNCHANGED ccStep
     ELSE /\ ccPc' = [ccPc EXCEPT ![p] = "rejected"]
          /\ UNCHANGED << ccCand, ccStep >>
  /\ UNCHANGED << ccRest, ccPort, ccAttempt, ccSynced, ccHolds, ccWrites >>

\* uploadToArduino: the next frame of the upload phase, then the finally block
cc_frame(p) ==
  /\ ccPc[p] = "up_frames"
  /\ IF ccStep[p] <= Len(ccFrames)
     THEN /\ ccWrites' = [ccWrites EXCEPT ![p] = @ + 1]
          /\ ccStep' = [ccStep EXCEPT ![p] = @ + 1]
          /\ UNCHANGED ccPc
     ELSE /\ ccPc' = [ccPc EXCEPT ![p] = "fin_cancel"]
          /\ UNCHANGED << ccWrites, ccStep >>
  /\ UNCHANGED << ccRest, ccPort, ccCand, ccAttempt, ccSynced, ccHolds >>

TwoInit ==
  /\ ccBoard \in 1..Len(ARDUINO_BOARDS)
  /\ ccPort = [open |-> FALSE, reader |-> 0, writer |-> 0]
  /\ ccPc = [p \in Calls |-> "as_open"] /\ ccCand = [p \in Calls |-> 1]
  /\ ccAttempt = [p \in Calls |-> 0] /\ ccSynced = [p \in Calls |-> FALSE]
  /\ ccStep = [p \in Calls |-> 0] /\ ccHolds = [p \in Calls |-> FALSE]
  /\ ccWrites = [p \in Calls |-> 0]
  /\ abortRequested = FALSE
  /\ NoUpload /\ HexIdle /\ AddrIdle

TwoNext ==
  \E p \in Calls :
    \/ cc_open(p) \/ cc_probe(p) \/ cc_cancel(p) \/ cc_writerClose(p)
    \/ cc_portClose(p) \/ cc_result(p) \/ cc_frame(p)

SpecTwo == TwoInit /\ [][TwoNext]_vars

\* C12: of two calls on one port at most one holds the open port; a call
\* writes only while it holds the port and the writer lock; and a call that
\* changes the port - opens it, closes it, releases a lock - is the one that
\* holds it.
C12_OneHolder ==
  /\ [](~(ccHolds[1] /\ ccHolds[2]))
  /\ [][\A p \in Calls :
          /\ ccWrites'[p] # ccWrites[p]
                => (ccHolds[p] /\ ccPort.open /\ ccPort.writer = p)
          /\ (ccPc'[p] # ccPc[p] /\ ccPort' # ccPort)
                => (ccHolds[p] \/ ccHolds'[p])]_vars

C12_Witness ==
  /\ ccHolds[1] /\ ccWrites[1] > 0 /\ ccWrites[2] > 0 /\ ccCand[1] > 1
  /\ ccPc[2] = "up_result" /\ ccPc[1] = "up_frames"

\* C1: whenever the promise of uploadToArduino has settled - after success,
\* after all candidates failed, or after a setSignals call rejected, a write
\* rejected or a progress callback threw - the port is closed.
C1_PortClosedWhenSettled ==
  (outcome # "pending" /\ faultKind \in { "none", "signals", "write", "progress" })
    => ~portOpen

\* a device that never sends a byte, and no call that fails
Silent == devMode = "silent" /\ bannerLen = 0 /\ faultKind = "none"

\* C2: against a device that never sends a byte the upload never resolves, and
\* it always comes to reject with the manual-reset error, having tried every
\* (baud, reset method) pair of the board once with maxAttempts probes each.
C2_SilentDeviceRejects ==
  /\ [](Silent => outcome # "resolved")
  /\ Silent ~> ( /\ outcome = "rejected" /\ err = "manual_reset"
                 /\ tried = AllPairs(ARDUINO_BOARDS[board])
                 /\ tx = [k \in 1..(maxAttempts * Len(tried)) |-> syncCmd] )

C2_Witness ==
  /\ Silent /\ board = 2 /\ outcome = "rejected" /\ err = "manual_reset"
  /\ Len(tried) = 6 /\ Len(tx) = 48

\* C3: a write that fails after the session was established makes the upload
\* reject without a 'done' event, and an upload that emitted 'done' does not
\* reject.
C3_AllOrNothing ==
  /\ pendingErr = "write" => ~DoneEmitted
  /\ (pc = "done" /\ pendingErr = "write") => outcome = "rejected"
  /\ outcome = "rejected" => ~DoneEmitted

\* C4: a resolved upload of L bytes has written ceil(L / pageSize)
\* LOAD_ADDRESS frames and as many PROG_PAGE frames, LOAD_ADDRESS then
\* PROG_PAGE for page 0, 1, 2, ..., and its last progress event is done at 100.
C4_PagePairs ==
  outcome = "resolved" =>
    LET L == Len(hexData)
        n == CeilDiv(L, pageSize)
    IN  /\ Len(PageFrames) = 2 * n
        /\ \A k \in 0..(n - 1) :
             LET load == PageFrames[2 * k + 1]
                 prog == PageFrames[2 * k + 2]
                 first == k * pageSize
                 m == Min(pageSize, L - first)
             IN  /\ load[1] = STK_LOAD_ADDRESS
                 /\ load[2] + 256 * load[3] = first \div 2
                 /\ prog[1] = STK_PROG_PAGE
                 /\ SubSeq(prog, 5, 4 + m) = SubSeq(hexData, first + 1, first + m)
        /\ progressLog # <<>>
        /\ progressLog[Len(progressLog)] = [stage |-> "done", num |-> 100, den |-> 1]

C4_Witness ==
  /\ outcome = "resolved" /\ Len(hexData) = 300 /\ Len(PageFrames) = 6
  /\ Len(ProgFrames) = 3

\* C5: the payload of the PROG_PAGE frame of page p is pageSize bytes: the
\* image's bytes from p * pageSize on, then 0xFF up to the page's end; the
\* pages of a resolved upload carry every image byte once.
C5_PagePayloads ==
  LET L == Len(hexData)
      frames == ProgFrames
      payload(k) == SubSeq(frames[k], 5, Len(frames[k]) - 1)
      first(k) == (k - 1) * pageSize
      m(k) == Min(pageSize, L - first(k))
      part(k) == SubSeq(hexData, first(k) + 1, first(k) + m(k))
  IN  /\ \A k \in 1..Len(frames) :
           /\ m(k) >= 1
           /\ payload(k) = part(k) \o [j \in 1..(pageSize - m(k)) |-> 255]
      /\ outcome = "resolved" =>
           Flatten([k \in 1..Len(frames) |-> part(k)]) = hexData

C5_Witness ==
  /\ Len(hexData) = 300 /\ Len(ProgFrames) = 3
  /\ ProgFrames[3][4 + 44] = hexData[300] /\ ProgFrames[3][4 + 45] = 255

\* C6: the LOAD_ADDRESS frame of page p is 0x55, lo, hi, 0x20 with
\* lo + 256 * hi the word address (p * pageSize) >> 1.
C6_WordAddress ==
  addrFrame # <<>> =>
    /\ Len(addrFrame) = 4 /\ addrFrame[1] = 85 /\ addrFrame[4] = 32
    /\ addrFrame[2] \in 0..255 /\ addrFrame[3] \in 0..255
    /\ addrFrame[2] + 256 * addrFrame[3] = (addrPage * pageSize) \div 2

\* C7: with a device that answers GET_SYNC only at 57600 baud after the DTR
\* pulse, and a board whose baud rates include 57600, the upload ends
\* connected, and the last pair it tried is (57600, dtr).
C7_SelectiveDeviceSyncs ==
  ( /\ devMode = "sel" /\ faultKind = "none" /\ pc = "done"
    /\ includes(baudRates(ARDUINO_BOARDS[board]), 57600) )
    => connected /\ tried[Len(tried)] = << 57600, "dtr" >>

\* C8: the progress events of a resolved upload never step back in stage
\* (connecting, syncing, uploading, verifying, done), never decrease in
\* percent, and stay within 0 and 100; stated for the runs in which no call
\* fails.
C8_ProgressMonotone ==
  (outcome = "resolved" /\ faultKind = "none") =>
    /\ \A i \in 1..Len(progressLog) :
         0 <= progressLog[i].num /\ progressLog[i].num <= 100 * progressLog[i].den
    /\ \A i \in 1..(Len(progressLog) - 1) :
         /\ StageRank(progressLog[i].stage) <= StageRank(progressLog[i + 1].stage)
         /\ progressLog[i].num * progressLog[i + 1].den
              <= progressLog[i + 1].num * progressLog[i].den

\* C9: the bytes the readWithTimeout calls have returned since the port was
\* opened are a prefix of the bytes the port's stream has received: nothing
\* lost, nothing twice, nothing out of order; stated for the runs in which no
\* call fails.
C9_ReceiveLosesNothing ==
  faultKind = "none" => IsPrefix(rxReturned, rxDelivered)

\* C10: parseHexFile returns the payloads of the file's type-00 records, in
\* file order, and nothing for a line of another type or without ':' first.
C10_ParsedImage ==
  hexPc = "returned" => hexResult = ExpectedImage(hexFile)

C10_Witness ==
  /\ hexPc = "returned"
  /\ hexFile.items = << Record(4, 0, << 0, 1 >>), Record(0, 0, << 12, 148 >>),
                        Record(1, 0, <<>>) >>
  /\ hexFile.eol = << "\r", "\n" >> /\ hexFile.lower
  /\ hexResult = << 12, 148 >>

\* C11: a session begins only on a port no earlier session still locks; a read
\* is issued, or is pending, only on the open port with the reader lock held;
\* a frame is written only on the open port with both locks held.
C11_SessionOnly ==
  /\ [][(portOpen' /\ ~portOpen) => (~readerLocked /\ ~writerLocked)]_vars
  /\ []((pc \in { "rt_loop", "rt_race" } \/ liveRead \/ nAbandoned > 0)
          => (portOpen /\ readerLocked))
  /\ [][tx' # tx => (portOpen /\ readerLocked /\ writerLocked)]_vars

C11_Witness ==
  /\ Len(tried) >= 2 /\ pc = "rt_race" /\ portOpen /\ nAbandoned > 0
  /\ Len(tx) > maxAttempts

====
